---- MODULE Spec2Model ----
(***************************************************************************)
(* Lifecycle of the HTTP server of learn-go-microservices: the two main    *)
(* programs that shut the server down on a signal.                         *)
(*   "part_001": buffered signal channel, SIGINT/SIGTERM, the shutdown     *)
(*               sequence on its own goroutine, main blocked in select{}.  *)
(*   "part_002": unbuffered channel, os.Kill/os.Interrupt, the shutdown    *)
(*               sequence inline in main, log.Fatal on any serve error.    *)
(* Time is counted in seconds; a statement of the program takes no time,   *)
(* a sleep, a handler and a context deadline take the time the code names. *)
(***************************************************************************)
EXTENDS Integers, Sequences, FiniteSets, TLC

VARIABLES variant, addrInUse, now, pcMain, pcServe, pcSeq, subscribed,
          sigChan, sig, sigSent, wakeAt, tcDeadline, ctxState,
          lnState, inShutdown, shutdownCalls, shutdownResult, serveErr,
          conns, inFlightAtSignal, refusedInShutdown, logs, exited, exitCode,
          hpc, reqBody, reqFailAt, resp, served, sawBadRequest

\* The request in hand and its response: the state of the handler.
hvars == <<hpc, reqBody, reqFailAt, resp, served, sawBadRequest>>

vars == <<variant, addrInUse, now, pcMain, pcServe, pcSeq, subscribed,
          sigChan, sig, sigSent, wakeAt, tcDeadline, ctxState,
          lnState, inShutdown, shutdownCalls, shutdownResult, serveErr,
          conns, inFlightAtSignal, refusedInShutdown, logs, exited, exitCode,
          hpc, reqBody, reqFailAt, resp, served, sawBadRequest>>

(* ------------------------------ bounds --------------------------------- *)
MaxConns == 1
MaxIdleTime == 1
MaxHandlerTime == 40
MaxTime == 38
MaxBodyLen == 3
MaxRequests == 2

(* ------------------------- program constants --------------------------- *)
CleanupSleep == 5
ShutdownTimeout == 30

Variants == {"part_001", "part_002"}

Signals == {"SIGINT", "SIGTERM", "SIGKILL", "SIGHUP", "SIGCHLD"}

\* Handler running times the environment may produce.
Durations == {1, 5, MaxHandlerTime}

\* make(chan os.Signal, 1) against make(chan os.Signal)
ChanCap(v) == IF v = "part_001" THEN 1 ELSE 0

\* The signals one signal.Notify call asks for; SIGKILL cannot be caught, so
\* asking for os.Kill subscribes to nothing.
Catchable(S) == S \ {"SIGKILL"}

NotifyAll == Catchable({"SIGINT", "SIGTERM"})

NotifyKill == Catchable({"SIGKILL"})

NotifyInterrupt == Catchable({"SIGINT"})

\* What the Go runtime does with a signal nobody subscribed to.
DefaultKills(sg) == sg \in {"SIGINT", "SIGTERM", "SIGKILL", "SIGHUP"}

\* The serve goroutine's check of ListenAndServe's error.
IsFatal(v, err) ==
    IF v = "part_001"
    THEN err # "nil" /\ err # "ErrServerClosed"
    ELSE err # "nil"

\* A ResponseWriter nothing has been written to: status 0 stands for "no
\* header written yet".
NewResponse == [status |-> 0, body |-> <<>>]

ActiveConns == {i \in 1..Len(conns) : conns[i].st = "active"}

Init ==
    /\ variant \in Variants
    /\ addrInUse \in BOOLEAN
    /\ now = 0
    /\ pcMain = "go_serve"
    /\ pcServe = "none"
    /\ pcSeq = "none"
    /\ subscribed = {}
    /\ sigChan = <<>>
    /\ sig = "none"
    /\ sigSent = FALSE
    /\ wakeAt = -1
    /\ tcDeadline = -1
    /\ ctxState = "none"
    /\ lnState = "unbound"
    /\ inShutdown = FALSE
    /\ shutdownCalls = 0
    /\ shutdownResult = "none"
    /\ serveErr = "nil"
    /\ conns = <<>>
    /\ inFlightAtSignal = {}
    /\ refusedInShutdown = FALSE
    /\ logs = <<>>
    /\ exited = FALSE
    /\ exitCode = -1
    /\ hpc = "idle"
    /\ reqBody = <<>>
    /\ reqFailAt = -1
    /\ resp = NewResponse
    /\ served = 0
    /\ sawBadRequest = FALSE

\* A context made with a bare 30 (nanoseconds) in place of 30*time.Second.
DeadlineNanos(t) == t

\* context.WithTimeout(context.Background(), 30*time.Second) created at time t
Deadline(t) == t + ShutdownTimeout

\* A Shutdown handed a context that never expires (context.Background()).
CtxNeverDone(t, deadline) == FALSE

\* <-ctx.Done() inside Shutdown: the deadline of the context has passed
CtxDone(t, deadline) == t >= deadline

\* Shutdown's wait loop: it returns once no connection is active, or once
\* the context is done.
ShutdownCanReturn == ActiveConns = {} \/ CtxDone(now, tcDeadline)

\* What Shutdown returns: nil when every connection has gone, ctx.Err()
\* otherwise. It closes no active connection.
ShutdownOutcome(active) == IF active = {} THEN "nil" ELSE "deadline_exceeded"

\* A shutdown sequence wrapped in a loop over the channel.
SeqLoop == "start"

\* Where the shutdown sequence goes after its last statement.
SeqEnd == "done"

\* A shutdown that marks the server but leaves its listener open.
ListenerLeftOpen(ln) == ln

\* Shutdown closes the open listener.
ListenerAfterShutdown(ln) == IF ln = "listening" THEN "closed" ELSE ln

\* A function that returns without having deferred cancel.
CancelDiscarded(c) == c

\* defer cancel(): when the enclosing function returns, the context made by
\* context.WithTimeout is released.
DeferredCancel(c) == IF c = "live" THEN "released" ELSE c

\* os.Exit, or death by signal: the process and its connections are gone.
AbortAll(cs) ==
    [i \in 1..Len(cs) |->
        IF cs[i].st = "active" THEN [cs[i] EXCEPT !.st = "aborted"] ELSE cs[i]]

(* --------------------------- main goroutine ---------------------------- *)
\* go func() { err := s.ListenAndServe() ... }()
MainGoServe ==
    /\ ~exited /\ pcMain = "go_serve"
    /\ pcServe' = "start"
    /\ pcMain' = IF variant = "part_001" THEN "notify" ELSE "notify_kill"
    /\ UNCHANGED <<hvars, variant, addrInUse, now, pcSeq, subscribed, sigChan, sig,
                   sigSent, wakeAt, tcDeadline, ctxState, lnState,
                   inShutdown, shutdownCalls, shutdownResult, serveErr, conns,
                   inFlightAtSignal, refusedInShutdown, logs, exited, exitCode>>

\* part_001: signal.Notify(sigChan, os.Interrupt, syscall.SIGTERM)
MainNotify ==
    /\ ~exited /\ pcMain = "notify"
    /\ subscribed' = subscribed \cup NotifyAll
    /\ pcMain' = "go_sig"
    /\ UNCHANGED <<hvars, variant, addrInUse, now, pcServe, pcSeq, sigChan, sig,
                   sigSent, wakeAt, tcDeadline, ctxState, lnState,
                   inShutdown, shutdownCalls, shutdownResult, serveErr, conns,
                   inFlightAtSignal, refusedInShutdown, logs, exited, exitCode>>

\* part_002: signal.Notify(sigChan, os.Kill)
MainNotifyKill ==
    /\ ~exited /\ pcMain = "notify_kill"
    /\ subscribed' = subscribed \cup NotifyKill
    /\ pcMain' = "notify_int"
    /\ UNCHANGED <<hvars, variant, addrInUse, now, pcServe, pcSeq, sigChan, sig,
                   sigSent, wakeAt, tcDeadline, ctxState, lnState,
                   inShutdown, shutdownCalls, shutdownResult, serveErr, conns,
                   inFlightAtSignal, refusedInShutdown, logs, exited, exitCode>>

\* part_002: signal.Notify(sigChan, os.Interrupt); main then runs the
\* shutdown sequence itself, starting at sig := <-sigChan
MainNotifyInterrupt ==
    /\ ~exited /\ pcMain = "notify_int"
    /\ subscribed' = subscribed \cup NotifyInterrupt
    /\ pcMain' = "seq"
    /\ pcSeq' = "start"
    /\ UNCHANGED <<hvars, variant, addrInUse, now, pcServe, sigChan, sig,
                   sigSent, wakeAt, tcDeadline, ctxState, lnState,
                   inShutdown, shutdownCalls, shutdownResult, serveErr, conns,
                   inFlightAtSignal, refusedInShutdown, logs, exited, exitCode>>

\* part_001: go func() { sig := <-sigChan ... }() and then select {}
MainGoSig ==
    /\ ~exited /\ pcMain = "go_sig"
    /\ pcSeq' = "start"
    /\ pcMain' = "select"
    /\ UNCHANGED <<hvars, variant, addrInUse, now, pcServe, subscribed, sigChan, sig,
                   sigSent, wakeAt, tcDeadline, ctxState, lnState,
                   inShutdown, shutdownCalls, shutdownResult, serveErr, conns,
                   inFlightAtSignal, refusedInShutdown, logs, exited, exitCode>>

\* part_002: main returns after s.Shutdown(tc): the deferred cancel runs and
\* the process exits with status 0.
MainReturn ==
    /\ ~exited /\ pcMain = "seq" /\ pcSeq = "done"
    /\ pcMain' = "returned"
    /\ ctxState' = DeferredCancel(ctxState)
    /\ exited' = TRUE
    /\ exitCode' = 0
    /\ conns' = AbortAll(conns)
    /\ UNCHANGED <<hvars, variant, addrInUse, now, pcServe, pcSeq, subscribed, sigChan,
                   sig, sigSent, wakeAt, tcDeadline, lnState,
                   inShutdown, shutdownCalls, shutdownResult, serveErr,
                   inFlightAtSignal, refusedInShutdown, logs>>

(* --------------------------- serve goroutine --------------------------- *)
\* s.ListenAndServe(): ErrServerClosed when the server is already shutting
\* down, the bind error when the address is taken, else the accept loop.
ServeListen ==
    /\ ~exited /\ pcServe = "start"
    /\ IF inShutdown
       THEN /\ serveErr' = "ErrServerClosed"
            /\ pcServe' = "returned"
            /\ UNCHANGED lnState
       ELSE IF addrInUse
       THEN /\ serveErr' = "EADDRINUSE"
            /\ pcServe' = "returned"
            /\ UNCHANGED lnState
       ELSE /\ lnState' = "listening"
            /\ pcServe' = "serving"
            /\ UNCHANGED serveErr
    /\ UNCHANGED <<hvars, variant, addrInUse, now, pcMain, pcSeq, subscribed, sigChan,
                   sig, sigSent, wakeAt, tcDeadline, ctxState,
                   inShutdown, shutdownCalls, shutdownResult, conns,
                   inFlightAtSignal, refusedInShutdown, logs, exited, exitCode>>

\* The accept loop finds its listener closed by Shutdown and returns
\* ErrServerClosed.
ServeClosed ==
    /\ ~exited /\ pcServe = "serving" /\ lnState = "closed"
    /\ serveErr' = "ErrServerClosed"
    /\ pcServe' = "returned"
    /\ UNCHANGED <<hvars, variant, addrInUse, now, pcMain, pcSeq, subscribed, sigChan,
                   sig, sigSent, wakeAt, tcDeadline, ctxState, lnState,
                   inShutdown, shutdownCalls, shutdownResult, conns,
                   inFlightAtSignal, refusedInShutdown, logs, exited, exitCode>>

\* if err != nil [&& err != http.ErrServerClosed] { log.Fatal(err) }
ServeCheck ==
    /\ ~exited /\ pcServe = "returned"
    /\ IF IsFatal(variant, serveErr)
       THEN /\ logs' = Append(logs, "fatal")
            /\ exited' = TRUE
            /\ exitCode' = 1
            /\ conns' = AbortAll(conns)
            /\ pcServe' = "fatal"
       ELSE /\ pcServe' = "done"
            /\ UNCHANGED <<logs, exited, exitCode, conns>>
    /\ UNCHANGED <<hvars, variant, addrInUse, now, pcMain, pcSeq, subscribed, sigChan,
                   sig, sigSent, wakeAt, tcDeadline, ctxState, lnState,
                   inShutdown, shutdownCalls, shutdownResult, serveErr,
                   inFlightAtSignal, refusedInShutdown>>

(* ------------------------- shutdown sequence --------------------------- *)
\* sig := <-sigChan finds nothing to receive: the goroutine parks on the
\* channel.
SeqPark ==
    /\ ~exited /\ pcSeq = "start" /\ Len(sigChan) = 0
    /\ pcSeq' = "recv"
    /\ UNCHANGED <<hvars, variant, addrInUse, now, pcMain, pcServe, subscribed, sigChan,
                   sig, sigSent, wakeAt, tcDeadline, ctxState, lnState,
                   inShutdown, shutdownCalls, shutdownResult, serveErr, conns,
                   inFlightAtSignal, refusedInShutdown, logs, exited, exitCode>>

\* sig := <-sigChan on the buffered channel of part_001: takes the signal
\* signal.Notify left in the buffer. (On the unbuffered channel of part_002
\* the receive completes inside Deliver, the only moment a send can succeed.)
SeqRecv ==
    /\ ~exited /\ pcSeq \in {"start", "recv"} /\ Len(sigChan) > 0
    /\ sig' = Head(sigChan)
    /\ sigChan' = Tail(sigChan)
    /\ inFlightAtSignal' = ActiveConns
    /\ pcSeq' = "log_sig"
    /\ UNCHANGED <<hvars, variant, addrInUse, now, pcMain, pcServe, subscribed,
                   sigSent, wakeAt, tcDeadline, ctxState, lnState,
                   inShutdown, shutdownCalls, shutdownResult, serveErr, conns,
                   refusedInShutdown, logs, exited, exitCode>>

\* log.Printf("Received signal: ..."); part_001 then starts
\* time.Sleep(5 * time.Second)
SeqLogSignal ==
    /\ ~exited /\ pcSeq = "log_sig"
    /\ logs' = Append(logs, "received")
    /\ IF variant = "part_001"
       THEN pcSeq' = "sleep" /\ wakeAt' = now + CleanupSleep
       ELSE pcSeq' = "with_timeout" /\ UNCHANGED wakeAt
    /\ UNCHANGED <<hvars, variant, addrInUse, now, pcMain, pcServe, subscribed, sigChan,
                   sig, sigSent, tcDeadline, ctxState, lnState,
                   inShutdown, shutdownCalls, shutdownResult, serveErr, conns,
                   inFlightAtSignal, refusedInShutdown, exited, exitCode>>

\* time.Sleep returns
SeqWake ==
    /\ ~exited /\ pcSeq = "sleep" /\ now >= wakeAt
    /\ pcSeq' = "with_timeout"
    /\ UNCHANGED <<hvars, variant, addrInUse, now, pcMain, pcServe, subscribed, sigChan,
                   sig, sigSent, wakeAt, tcDeadline, ctxState, lnState,
                   inShutdown, shutdownCalls, shutdownResult, serveErr, conns,
                   inFlightAtSignal, refusedInShutdown, logs, exited, exitCode>>

\* tc, cancel := context.WithTimeout(...); defer cancel()
SeqWithTimeout ==
    /\ ~exited /\ pcSeq = "with_timeout"
    /\ tcDeadline' = Deadline(now)
    /\ ctxState' = "live"
    /\ pcSeq' = "shutdown_call"
    /\ UNCHANGED <<hvars, variant, addrInUse, now, pcMain, pcServe, subscribed, sigChan,
                   sig, sigSent, wakeAt, lnState,
                   inShutdown, shutdownCalls, shutdownResult, serveErr, conns,
                   inFlightAtSignal, refusedInShutdown, logs, exited, exitCode>>

\* s.Shutdown(tc) begins: the server is marked as shutting down and its
\* listener is closed; the call then waits.
SeqShutdownCall ==
    /\ ~exited /\ pcSeq = "shutdown_call"
    /\ inShutdown' = TRUE
    /\ lnState' = ListenerAfterShutdown(lnState)
    /\ shutdownCalls' = shutdownCalls + 1
    /\ pcSeq' = "shutdown_wait"
    /\ UNCHANGED <<hvars, variant, addrInUse, now, pcMain, pcServe, subscribed, sigChan,
                   sig, sigSent, wakeAt, tcDeadline, ctxState,
                   shutdownResult, serveErr, conns,
                   inFlightAtSignal, refusedInShutdown, logs, exited, exitCode>>

\* s.Shutdown(tc) returns. part_002 drops the result and is at the end of
\* main; part_001 goes on to log it.
SeqShutdownReturn ==
    /\ ~exited /\ pcSeq = "shutdown_wait" /\ ShutdownCanReturn
    /\ shutdownResult' = ShutdownOutcome(ActiveConns)
    /\ pcSeq' = IF variant = "part_001" THEN "log_outcome" ELSE SeqEnd
    /\ UNCHANGED <<hvars, variant, addrInUse, now, pcMain, pcServe, subscribed, sigChan,
                   sig, sigSent, wakeAt, tcDeadline, ctxState, lnState,
                   inShutdown, shutdownCalls, serveErr, conns,
                   inFlightAtSignal, refusedInShutdown, logs, exited, exitCode>>

\* part_001: the if/else that logs the outcome; the goroutine then returns
\* and its deferred cancel runs.
SeqLogOutcome ==
    /\ ~exited /\ pcSeq = "log_outcome"
    /\ logs' = Append(logs, IF shutdownResult # "nil"
                            THEN "shutdown_error" ELSE "graceful")
    /\ ctxState' = DeferredCancel(ctxState)
    /\ pcSeq' = SeqEnd
    /\ UNCHANGED <<hvars, variant, addrInUse, now, pcMain, pcServe, subscribed, sigChan,
                   sig, sigSent, wakeAt, tcDeadline, lnState,
                   inShutdown, shutdownCalls, shutdownResult, serveErr, conns,
                   inFlightAtSignal, refusedInShutdown, exited, exitCode>>

(* ---------------------------- environment ------------------------------ *)
\* The operating system delivers signal sg to the process. A subscribed
\* signal is sent on sigChan without blocking: into the buffer when there is
\* room, straight to a receiver already waiting on an unbuffered channel,
\* and dropped otherwise. A signal nobody subscribed to gets the runtime's
\* default treatment.
Deliver(sg) ==
    /\ ~exited
    /\ IF sg \in subscribed
       THEN /\ sigSent' = TRUE
            /\ IF Len(sigChan) < ChanCap(variant)
               THEN /\ sigChan' = Append(sigChan, sg)
                    /\ UNCHANGED <<sig, pcSeq, inFlightAtSignal>>
               ELSE IF ChanCap(variant) = 0 /\ pcSeq = "recv"
               THEN /\ sig' = sg
                    /\ pcSeq' = "log_sig"
                    /\ inFlightAtSignal' = ActiveConns
                    /\ UNCHANGED sigChan
               ELSE UNCHANGED <<sigChan, sig, pcSeq, inFlightAtSignal>>
            /\ UNCHANGED <<exited, exitCode, conns>>
       ELSE /\ IF DefaultKills(sg)
               THEN exited' = TRUE /\ exitCode' = 2 /\ conns' = AbortAll(conns)
               ELSE UNCHANGED <<exited, exitCode, conns>>
            /\ UNCHANGED <<sigSent, sigChan, sig, pcSeq, inFlightAtSignal>>
    /\ UNCHANGED <<hvars, variant, addrInUse, now, pcMain, pcServe, subscribed,
                   wakeAt, tcDeadline, ctxState, lnState, inShutdown,
                   shutdownCalls, shutdownResult, serveErr,
                   refusedInShutdown, logs>>

\* A client connects and sends a request whose handler will run for d
\* seconds: accepted while the accept loop has an open listener.
Connect(d) ==
    /\ ~exited /\ Len(conns) < MaxConns
    /\ pcServe = "serving" /\ lnState = "listening"
    /\ conns' = Append(conns, [st |-> "active", dur |-> d, doneAt |-> now + d])
    /\ UNCHANGED <<hvars, variant, addrInUse, now, pcMain, pcServe, pcSeq, subscribed,
                   sigChan, sig, sigSent, wakeAt, tcDeadline,
                   ctxState, lnState, inShutdown, shutdownCalls, shutdownResult,
                   serveErr, inFlightAtSignal, refusedInShutdown, logs,
                   exited, exitCode>>

\* A client connects while Shutdown has closed the listener: refused.
ConnectRefused ==
    /\ ~exited /\ inShutdown /\ lnState = "closed"
    /\ ~refusedInShutdown
    /\ refusedInShutdown' = TRUE
    /\ UNCHANGED <<hvars, variant, addrInUse, now, pcMain, pcServe, pcSeq, subscribed,
                   sigChan, sig, sigSent, wakeAt, tcDeadline,
                   ctxState, lnState, inShutdown, shutdownCalls, shutdownResult,
                   serveErr, conns, inFlightAtSignal, logs, exited, exitCode>>

\* The handler of connection i returns; the response is complete and the
\* connection closes.
HandlerFinish(i) ==
    /\ ~exited /\ i \in ActiveConns /\ now >= conns[i].doneAt
    /\ conns' = [conns EXCEPT ![i].st = "done"]
    /\ UNCHANGED <<hvars, variant, addrInUse, now, pcMain, pcServe, pcSeq, subscribed,
                   sigChan, sig, sigSent, wakeAt, tcDeadline,
                   ctxState, lnState, inShutdown, shutdownCalls, shutdownResult,
                   serveErr, inFlightAtSignal, refusedInShutdown, logs,
                   exited, exitCode>>

\* Some goroutine has a statement to run, a timer has fired or a handler
\* has run its time: these happen before the clock moves on.
StepPending ==
    \/ pcMain \in {"go_serve", "notify", "notify_kill", "notify_int", "go_sig"}
    \/ (pcMain = "seq" /\ pcSeq = "done")
    \/ pcServe \in {"start", "returned"}
    \/ (pcServe = "serving" /\ lnState = "closed")
    \/ pcSeq \in {"log_sig", "with_timeout", "shutdown_call", "log_outcome"}
    \/ pcSeq = "start"
    \/ (pcSeq = "recv" /\ Len(sigChan) > 0)
    \/ (pcSeq = "sleep" /\ now >= wakeAt)
    \/ (pcSeq = "shutdown_wait" /\ ShutdownCanReturn)
    \/ \E i \in ActiveConns : now >= conns[i].doneAt

\* A sleep, a Shutdown wait or a handler is running: time matters.
TimerPending ==
    \/ pcSeq \in {"sleep", "shutdown_wait"}
    \/ ActiveConns # {}

\* The instants at which a sleep ends, a context expires or a handler returns.
Timers ==
    (IF pcSeq = "sleep" THEN {wakeAt} ELSE {})
    \cup (IF pcSeq = "shutdown_wait" THEN {tcDeadline} ELSE {})
    \cup {conns[i].doneAt : i \in ActiveConns}

Min(S) == CHOOSE x \in S : \A y \in S : x <= y

\* The next instant at which the state can change: one second on while the
\* listener is open (a client may connect at any time), else the next timer.
NextInstant ==
    LET later == {t \in Timers : t > now}
        next == IF lnState = "listening" \/ later = {} THEN now + 1 ELSE Min(later)
    IN IF next > MaxTime THEN MaxTime ELSE next

\* Time passes.
Tick ==
    /\ ~exited /\ ~StepPending
    /\ now < MaxTime
    /\ TimerPending \/ now < MaxIdleTime
    /\ now' = NextInstant
    /\ UNCHANGED <<hvars, variant, addrInUse, pcMain, pcServe, pcSeq, subscribed,
                   sigChan, sig, sigSent, wakeAt, tcDeadline,
                   ctxState, lnState, inShutdown, shutdownCalls, shutdownResult,
                   serveErr, conns, inFlightAtSignal, refusedInShutdown, logs,
                   exited, exitCode>>

Next ==
    \/ MainGoServe
    \/ MainNotify
    \/ MainNotifyKill
    \/ MainNotifyInterrupt
    \/ MainGoSig
    \/ MainReturn
    \/ ServeListen
    \/ ServeClosed
    \/ ServeCheck
    \/ SeqPark
    \/ SeqRecv
    \/ SeqLogSignal
    \/ SeqWake
    \/ SeqWithTimeout
    \/ SeqShutdownCall
    \/ SeqShutdownReturn
    \/ SeqLogOutcome
    \/ \E sg \in Signals : Deliver(sg)
    \/ \E d \in Durations : Connect(d)
    \/ ConnectRefused
    \/ \E i \in 1..MaxConns : HandlerFinish(i)
    \/ Tick

Spec == Init /\ [][Next]_vars

(* ------------------------------ handler -------------------------------- *)
StatusOK == 200
StatusBadRequest == 400

\* The bytes a request body is made of, "%" among them.
BodyChars == {"a", "s", "%"}

World == <<"w", "o", "r", "l", "d">>

\* The request bodies a client may send.
Bodies == UNION {[1..k -> BodyChars] : k \in 0..MaxBodyLen} \cup {World}

\* How a read of body b may go: -1, all of it up to EOF; k, an error after
\* k bytes.
FailPoints(b) == {-1} \cup 0..Len(b)

\* The format string "Hello %s"
HelloFormat == <<"H", "e", "l", "l", "o", " ", "%", "s">>

\* The message of http.Error(w, "Oops..", ...)
Oops == <<"O", "o", "p", "s", ".", ".">>

\* What fmt prints for a verb c that has no operand left.
Missing(c) == <<"%", "!", c, "(", "M", "I", "S", "S", "I", "N", "G", ")">>

\* fmt's formatting of format f with the operands args (byte slices, all
\* printed by %s): text is copied, %% is a percent sign, a verb takes the
\* next operand.
RECURSIVE Sprintf(_, _)
Sprintf(f, args) ==
    IF f = <<>> THEN <<>>
    ELSE IF Head(f) # "%" THEN <<Head(f)>> \o Sprintf(Tail(f), args)
    ELSE IF Len(f) = 1 THEN <<"%", "!", "(", "N", "O", "V", "E", "R", "B", ")">>
    ELSE IF f[2] = "%" THEN <<"%">> \o Sprintf(Tail(Tail(f)), args)
    ELSE IF args = <<>> THEN Missing(f[2]) \o Sprintf(Tail(Tail(f)), args)
    ELSE Head(args) \o Sprintf(Tail(Tail(f)), Tail(args))

\* d, err := io.ReadAll(r.Body)
ReadAll(b, failAt) ==
    IF failAt = -1
    THEN [d |-> b, err |-> "nil"]
    ELSE [d |-> SubSeq(b, 1, failAt), err |-> "read_error"]

\* w.WriteHeader(code): the first status written stands.
WriteHeader(w, code) == IF w.status = 0 THEN [w EXCEPT !.status = code] ELSE w

\* w.Write(bytes): writes the 200 header first when none was written.
Write(w, bytes) ==
    LET h == WriteHeader(w, StatusOK)
    IN [h EXCEPT !.body = h.body \o bytes]

\* http.Error(w, msg, code): the header, then the message and a newline.
HttpError(w, msg, code) == Write(WriteHeader(w, code), msg \o <<"\n">>)

\* A handler that hands the body to fmt as part of the format string.
BodyAsFormat(w, d) == Write(w, Sprintf(<<"H", "e", "l", "l", "o", " ">> \o d, <<>>))

\* fmt.Fprintf(w, "Hello %s", d)
WriteHello(w, d) == Write(w, Sprintf(HelloFormat, <<d>>))

\* An error branch without its return: the greeting follows the error.
ErrorWithoutReturn(w, d) == WriteHello(HttpError(w, Oops, StatusBadRequest), d)

\* if err != nil { http.Error(w, "Oops..", http.StatusBadRequest); return }
ErrorBranch(w, d) == HttpError(w, Oops, StatusBadRequest)

\* Hello.ServeHTTP on a request with body b whose read goes as failAt says
ServeHTTP(w, b, failAt) ==
    LET r == ReadAll(b, failAt)
    IN IF r.err # "nil" THEN ErrorBranch(w, r.d) ELSE WriteHello(w, r.d)

\* The server sends the 200 header if the handler wrote nothing.
Finish(w) == WriteHeader(w, StatusOK)

\* A request with body b arrives at the listening server and gets a fresh
\* ResponseWriter.
HRequest(b, failAt) ==
    /\ ~exited /\ pcServe = "serving" /\ lnState = "listening"
    /\ hpc = "idle" /\ served < MaxRequests
    /\ hpc' = "handling"
    /\ reqBody' = b
    /\ reqFailAt' = failAt
    /\ resp' = NewResponse
    /\ UNCHANGED <<served, sawBadRequest>>
    /\ UNCHANGED <<variant, addrInUse, now, pcMain, pcServe, pcSeq, subscribed,
                   sigChan, sig, sigSent, wakeAt, tcDeadline, ctxState, lnState,
                   inShutdown, shutdownCalls, shutdownResult, serveErr, conns,
                   inFlightAtSignal, refusedInShutdown, logs, exited, exitCode>>

\* The handler runs and returns; the response is sent.
HServe ==
    /\ ~exited /\ hpc = "handling"
    /\ resp' = Finish(ServeHTTP(resp, reqBody, reqFailAt))
    /\ served' = served + 1
    /\ sawBadRequest' = (sawBadRequest \/ resp'.status = StatusBadRequest)
    /\ hpc' = "idle"
    /\ UNCHANGED <<reqBody, reqFailAt>>
    /\ UNCHANGED <<variant, addrInUse, now, pcMain, pcServe, pcSeq, subscribed,
                   sigChan, sig, sigSent, wakeAt, tcDeadline, ctxState, lnState,
                   inShutdown, shutdownCalls, shutdownResult, serveErr, conns,
                   inFlightAtSignal, refusedInShutdown, logs, exited, exitCode>>

\* The server up and listening, the signal-wait task parked, no request yet.
HandlerInit ==
    /\ variant \in Variants
    /\ addrInUse = FALSE
    /\ now = 0
    /\ pcMain = (IF variant = "part_001" THEN "select" ELSE "seq")
    /\ pcServe = "serving"
    /\ pcSeq = "recv"
    /\ subscribed = (IF variant = "part_001" THEN NotifyAll
                     ELSE NotifyKill \cup NotifyInterrupt)
    /\ sigChan = <<>>
    /\ sig = "none"
    /\ sigSent = FALSE
    /\ wakeAt = -1
    /\ tcDeadline = -1
    /\ ctxState = "none"
    /\ lnState = "listening"
    /\ inShutdown = FALSE
    /\ shutdownCalls = 0
    /\ shutdownResult = "none"
    /\ serveErr = "nil"
    /\ conns = <<>>
    /\ inFlightAtSignal = {}
    /\ refusedInShutdown = FALSE
    /\ logs = <<>>
    /\ exited = FALSE
    /\ exitCode = -1
    /\ hpc = "idle"
    /\ reqBody = <<>>
    /\ reqFailAt = -1
    /\ resp = NewResponse
    /\ served = 0
    /\ sawBadRequest = FALSE

HandlerNext ==
    \/ \E b \in Bodies : \E f \in FailPoints(b) : HRequest(b, f)
    \/ HServe

HandlerSpec == HandlerInit /\ [][HandlerNext]_vars

(* ----------------------------- lifecycle ------------------------------- *)
\* The controller's state as the program shows it: stopped once the process
\* has ended or the shutdown sequence is over, draining once the signal has
\* been received, listening while the listener is open, idle before.
Lifecycle ==
    IF exited \/ pcSeq = "done" THEN "Stopped"
    ELSE IF sig # "none" THEN "Draining"
    ELSE IF lnState = "listening" THEN "Listening"
    ELSE "Idle"

\* The order Idle, Listening, Draining, Stopped.
Rank(st) ==
    CASE st = "Idle" -> 0
      [] st = "Listening" -> 1
      [] st = "Draining" -> 2
      [] st = "Stopped" -> 3

(* ============================== claims ================================= *)

\* C1: the signal subscription is made before the server starts accepting:
\* no state has the listener open while main has not yet run its
\* signal.Notify calls.
C1_SubscribedBeforeListening ==
    lnState = "listening" =>
        pcMain \notin {"go_serve", "notify", "notify_kill", "notify_int"}

\* C2 (as stated): once the signal has been received from the channel, no
\* step accepts a new connection.
C2_NoAcceptAfterSignal ==
    [][sig # "none" => Len(conns') = Len(conns)]_vars

\* C2 (amended): once Shutdown has been invoked, no step accepts a new
\* connection.
C2_NoAcceptAfterShutdown ==
    [][inShutdown => Len(conns') = Len(conns)]_vars

\* A client tried to connect after Shutdown was invoked and was refused.
C2_Witness ==
    /\ inShutdown /\ refusedInShutdown /\ sig # "none"
    /\ shutdownCalls = 1

\* C3: in part_001, once Shutdown has returned, every request that was in
\* flight at the signal and due before the deadline has completed; no request
\* in flight at the signal is cut off by the program's own exit; Shutdown
\* returned nil when every request was due before the deadline, and so it did
\* whenever no handler ran longer than 5 seconds.
C3_InFlightCompletes ==
    variant = "part_001" =>
        /\ \A i \in inFlightAtSignal :
              conns[i].st = "aborted" => exitCode = 2
        /\ shutdownResult # "none" =>
              /\ \A i \in inFlightAtSignal :
                    conns[i].doneAt < tcDeadline => conns[i].st = "done"
              /\ (\A i \in 1..Len(conns) : conns[i].doneAt < tcDeadline)
                    => shutdownResult = "nil"
              /\ (\A i \in 1..Len(conns) : conns[i].dur <= 5)
                    => shutdownResult = "nil"

\* A 5-second request in flight at the signal, completed, and a clean stop.
C3_Witness ==
    /\ variant = "part_001" /\ shutdownResult = "nil"
    /\ \E i \in inFlightAtSignal :
          conns[i].dur = 5 /\ conns[i].st = "done"
          /\ conns[i].doneAt > wakeAt - CleanupSleep
    /\ tcDeadline = wakeAt + ShutdownTimeout

\* C4: Shutdown never waits past its deadline, returns no later than it, and
\* never returns success while a request is still active.
C4_ShutdownBounded ==
    /\ pcSeq \in {"shutdown_wait", "log_outcome"} => now <= tcDeadline
    /\ (variant = "part_002" /\ shutdownResult # "none") => now <= tcDeadline
    /\ shutdownResult = "nil" => \A i \in 1..Len(conns) : conns[i].st = "done"

\* Shutdown has just returned the timeout at the deadline with a request
\* still active.
C4_Witness ==
    /\ shutdownResult = "deadline_exceeded" /\ now = tcDeadline
    /\ ActiveConns # {}

\* C5: in part_001, after a forced stop (Shutdown returned the timeout and
\* the sequence is over) no connection is open with a handler running.
C5_ForcedStopClosesAll ==
    (variant = "part_001" /\ shutdownResult = "deadline_exceeded"
        /\ pcSeq = "done") => ActiveConns = {}

\* C6: a process whose shutdown has returned exits with status 0 unless
\* killed from outside, and status 1 (log.Fatal) is only ever the result of
\* an unexpected listen error.
C6_ExitZeroAfterShutdown ==
    /\ (exited /\ shutdownResult # "none" /\ exitCode # 2) => exitCode = 0
    /\ exitCode = 1 => serveErr \notin {"nil", "ErrServerClosed"}

\* C7: the serve goroutine aborts the process exactly when ListenAndServe
\* returned an error other than ErrServerClosed.
C7_FatalIffUnexpected ==
    /\ pcServe = "fatal" => serveErr \notin {"nil", "ErrServerClosed"}
    /\ pcServe = "done" => serveErr \in {"nil", "ErrServerClosed"}

\* C8: Shutdown is invoked at most once, whatever signals arrive.
C8_AtMostOneShutdown ==
    shutdownCalls <= 1

\* The sequence is over and a later signal sits in the channel's buffer.
C8_Witness ==
    /\ shutdownCalls = 1 /\ pcSeq = "done"
    /\ Len(sigChan) = 1 /\ sig # "none"

\* C9: with the address free, no goroutine of the program ends the process
\* (main returning: status 0, log.Fatal: status 1) between the receipt of the
\* signal and the end of the shutdown sequence.
C9_NoExitDuringShutdown ==
    (~addrInUse /\ sig # "none" /\ pcSeq # "done") =>
        ~(exited /\ exitCode \in {0, 1})

\* C10: a subscribed signal handed to the channel is in its buffer or has
\* been received: it is never dropped before the first receive.
C10_SignalNotLost ==
    sigSent => (Len(sigChan) > 0 \/ sig # "none")

\* C11: when the bind fails, the listener is never opened, Shutdown is never
\* invoked, and the program ends by the fatal abort (status 1) unless killed
\* from outside.
C11_BindFailureStopsDirectly ==
    serveErr = "EADDRINUSE" =>
        /\ lnState = "unbound"
        /\ shutdownCalls = 0
        /\ (exited /\ exitCode # 2) => exitCode = 1

\* C12: an interrupt or a terminate signal delivered to a listening server
\* whose signal-wait task exists starts the shutdown: the process is not
\* killed by it and the signal is received or waiting in the channel.
C12_HandledSignalsStartShutdown ==
    [][\A sg \in {"SIGINT", "SIGTERM"} :
          (Deliver(sg) /\ lnState = "listening" /\ pcSeq \in {"start", "recv"})
              => (~exited' /\ (sig' # "none" \/ Len(sigChan') > 0))]_vars

\* C13: a request whose body was read to the end is answered with status
\* 200 and the body "Hello " followed by the request body; the body "world"
\* gives "Hello world".
C13_HelloBody ==
    (hpc = "idle" /\ served > 0 /\ reqFailAt = -1) =>
        /\ resp.status = 200
        /\ resp.body = <<"H", "e", "l", "l", "o", " ">> \o reqBody
        /\ reqBody = World =>
              resp.body = <<"H", "e", "l", "l", "o", " ", "w", "o", "r", "l", "d">>

\* A body holding a "%" was read to the end and answered.
C13_Witness ==
    /\ hpc = "idle" /\ served > 0 /\ reqFailAt = -1
    /\ \E i \in 1..Len(reqBody) : reqBody[i] = "%"
    /\ resp.status = 200 /\ Len(resp.body) = 6 + Len(reqBody)

\* C14: a request whose body read failed is answered with status 400 and
\* the fixed message, with no greeting in the response; the process is not
\* aborted and the server is still listening after any failed request.
C14_ReadErrorIsLocal ==
    /\ (hpc = "idle" /\ served > 0 /\ reqFailAt # -1) =>
          /\ resp.status = 400
          /\ resp.body = <<"O", "o", "p", "s", ".", ".", "\n">>
    /\ sawBadRequest =>
          ~exited /\ pcServe = "serving" /\ lnState = "listening"

\* After a request answered 400, a later one was answered 200.
C14_Witness ==
    /\ sawBadRequest /\ served >= 2 /\ hpc = "idle"
    /\ reqFailAt = -1 /\ resp.status = 200

\* C15: the lifecycle state never moves backwards, Draining is entered from
\* Listening only, no listener is opened once the signal has been received,
\* and after Stopped nothing listens or accepts again.
C15_LifecycleForward ==
    [][/\ Rank(Lifecycle') >= Rank(Lifecycle)
       /\ (Lifecycle' = "Draining" /\ Lifecycle # "Draining")
             => Lifecycle = "Listening"
       /\ (sig # "none" /\ lnState # "listening") => lnState' # "listening"
       /\ Lifecycle = "Stopped" =>
             (lnState' # "listening" /\ Len(conns') = Len(conns))]_vars

\* C16: the cancel function of the shutdown context is invoked on every path
\* on which the shutdown call finishes, with a nil result or with the
\* deadline error: the shutdown task never ends, and main never returns
\* normally, with the context created and not released. The release belongs
\* to the return, so it does not come before Shutdown's result.
C16_CancelAlwaysRuns ==
    /\ (variant = "part_001" /\ pcSeq = "done") => ctxState = "released"
    /\ (variant = "part_002" /\ pcMain = "returned") => ctxState = "released"
    /\ (exited /\ exitCode = 0) => ctxState = "released"
    /\ ctxState = "released" => shutdownResult \in {"nil", "deadline_exceeded"}

\* The shutdown call ran into its deadline, and the context was released on
\* the way out.
C16_Witness ==
    /\ shutdownResult = "deadline_exceeded"
    /\ ctxState = "released"
    /\ pcSeq = "done"

\* C17: every completed shutdown has written exactly one outcome entry to
\* the log, the error entry exactly when Shutdown returned an error and the
\* "gracefully shut down" entry exactly when it returned nil, and the
\* process has not been aborted by log.Fatal.
C17_OneOutcomeEntry ==
    (pcSeq = "done" /\ shutdownResult # "none") =>
        /\ Cardinality({i \in DOMAIN logs :
                           logs[i] \in {"shutdown_error", "graceful"}}) = 1
        /\ (\E i \in DOMAIN logs : logs[i] = "shutdown_error")
              <=> shutdownResult = "deadline_exceeded"
        /\ (\E i \in DOMAIN logs : logs[i] = "graceful")
              <=> shutdownResult = "nil"
        /\ \A i \in DOMAIN logs : logs[i] # "fatal"

====
